---- MODULE Spec2Model ----
(***************************************************************************)
(* Model of the hunk parser (src/src/diff.rs, Diff) and of the comment     *)
(* line resolver (src/src/main.rs, ReviewComment::line_range).             *)
(*                                                                         *)
(* Text is a sequence of one-character strings, so that splitting,         *)
(* trimming, searching and integer parsing are computed as the code        *)
(* computes them.                                                          *)
(*                                                                         *)
(* A u32 value v is carried as the integer v when v < 2^31 and as          *)
(* v - 2^32 otherwise (its two's-complement reading): 4294967295 is -1.    *)
(* An arithmetic overflow aborts the program when the build checks         *)
(* overflow (the default of a debug build) and wraps when it does not      *)
(* (the default of a release build); overflow_checks is that setting.      *)
(***************************************************************************)
EXTENDS Integers, Sequences, FiniteSets, TLC

VARIABLES
    hunk,            \* the raw hunk text handed to Diff::from_only_hunk
    overflow_checks, \* build setting: arithmetic overflow aborts (TRUE) or wraps
    pc,              \* position of from_only_hunk: "start", "loop", "done"; of
                     \* on_change: "idle", "get_comments", "map", "publish",
                     \* "aborted"
    rest,            \* lines of hunk.split('\n') the loop has not consumed
    p,               \* locals of from_only_hunk, fields of the Diff on Ok
    result,          \* "none", "Ok", "Parse", "Invalid" or "panic"
    out,             \* last value a method of the Diff returned
    comment,         \* the ReviewComment of the last line_range call
    text,            \* params.text of on_change, handed to line_range
    resolved,        \* what the last line_range call returned, or that it aborted
    starter,         \* conversation.starter entries of the file not yet mapped
    diagnostics      \* the ranges of the diagnostics collected so far

vars == <<hunk, overflow_checks, pc, rest, p, result, out, comment, text, resolved,
          starter, diagnostics>>

(***************************************************************************)
(* str primitives                                                          *)
(***************************************************************************)
NL == "\n"

\* s[from..to) with 0-based byte indices, as a Rust slice s[from..to]
Slice(s, from, to) == SubSeq(s, from + 1, to)

\* s[from..]
SliceFrom(s, from) == SubSeq(s, from + 1, Len(s))

StartsWith(s, pre) ==
    /\ Len(pre) <= Len(s)
    /\ SubSeq(s, 1, Len(pre)) = pre

EndsWith(s, suf) ==
    /\ Len(suf) <= Len(s)
    /\ SubSeq(s, Len(s) - Len(suf) + 1, Len(s)) = suf

\* str::find: 0-based index of the first occurrence of pat in s, or -1 (None)
Find(s, pat) ==
    LET hits == { i \in 0..(Len(s) - Len(pat)) : SubSeq(s, i + 1, i + Len(pat)) = pat }
    IN  IF hits = {} THEN -1 ELSE CHOOSE i \in hits : \A j \in hits : i <= j

\* str::trim_start_matches with a one-character pattern
RECURSIVE TrimStartMatches(_, _)
TrimStartMatches(s, c) ==
    IF s # <<>> /\ Head(s) = c THEN TrimStartMatches(Tail(s), c) ELSE s

\* str::trim_end_matches with a one-character pattern
RECURSIVE TrimEndMatches(_, _)
TrimEndMatches(s, c) ==
    IF s # <<>> /\ s[Len(s)] = c THEN TrimEndMatches(SubSeq(s, 1, Len(s) - 1), c) ELSE s

\* str::split with a one-character separator: always at least one piece,
\* and a final empty piece when s ends in the separator
RECURSIVE Split(_, _)
Split(s, c) ==
    LET i == Find(s, <<c>>)
    IN  IF i = -1 THEN <<s>>
        ELSE <<Slice(s, 0, i)>> \o Split(SliceFrom(s, i + 1), c)

\* first piece of str::split(c), what .next() yields on a fresh iterator
SplitFirst(s, c) == Head(Split(s, c))

\* str::matches(c).count()
RECURSIVE CountMatches(_, _)
CountMatches(s, c) ==
    IF s = <<>> THEN 0
    ELSE (IF Head(s) = c THEN 1 ELSE 0) + CountMatches(Tail(s), c)

\* str::strip_suffix("\n"), with None rendered as the unchanged string
\* (the callers keep `out` on None)
StripSuffixNL(s) ==
    IF EndsWith(s, <<NL>>) THEN SubSeq(s, 1, Len(s) - 1) ELSE s

(***************************************************************************)
(* u32                                                                     *)
(***************************************************************************)
DigitValue(c) ==
    CASE c = "0" -> 0 [] c = "1" -> 1 [] c = "2" -> 2 [] c = "3" -> 3
      [] c = "4" -> 4 [] c = "5" -> 5 [] c = "6" -> 6 [] c = "7" -> 7
      [] c = "8" -> 8 [] c = "9" -> 9 [] OTHER -> -1

IsDigit(c) == DigitValue(c) # -1

RECURSIVE DecimalValue(_)
DecimalValue(ds) ==
    IF ds = <<>> THEN 0
    ELSE DecimalValue(SubSeq(ds, 1, Len(ds) - 1)) * 10 + DigitValue(ds[Len(ds)])

\* digits of u32::MAX = 4294967295
U32MaxDigits == <<"4", "2", "9", "4", "9", "6", "7", "2", "9", "5">>

\* lexicographic a > b for digit strings of equal length
RECURSIVE DigitsGreater(_, _)
DigitsGreater(a, b) ==
    IF a = <<>> THEN FALSE
    ELSE IF DigitValue(Head(a)) # DigitValue(Head(b))
         THEN DigitValue(Head(a)) > DigitValue(Head(b))
         ELSE DigitsGreater(Tail(a), Tail(b))

\* str::parse::<u32>: an optional '+', then one or more decimal digits whose
\* value fits 32 bits.  [ok |-> FALSE] is Err(ParseIntError).
ParseU32(s) ==
    LET ds  == IF s # <<>> /\ Head(s) = "+" THEN Tail(s) ELSE s
        sig == TrimStartMatches(ds, "0")
        v9  == DecimalValue(SubSeq(sig, 1, 9))
        d   == DigitValue(sig[10])
    IN  IF ds = <<>> \/ \E i \in 1..Len(ds) : ~IsDigit(ds[i])
            THEN [ok |-> FALSE, value |-> 0]
        ELSE IF Len(sig) > 10 \/ (Len(sig) = 10 /\ DigitsGreater(sig, U32MaxDigits))
            THEN [ok |-> FALSE, value |-> 0]
        ELSE IF Len(sig) <= 9
            THEN [ok |-> TRUE, value |-> DecimalValue(sig)]
        ELSE IF v9 < 214748364 \/ (v9 = 214748364 /\ d <= 7)
            THEN [ok |-> TRUE, value |-> v9 * 10 + d]
        ELSE [ok |-> TRUE, value |-> (v9 - 429496728) * 10 + (d - 16)]

\* a < b as u32 values
U32Less(a, b) ==
    IF (a < 0) = (b < 0) THEN a < b ELSE b < 0

\* a + b overflows 32 bits
AddOverflows(a, b) ==
    \/ a < 0 /\ b < 0
    \/ (a < 0) # (b < 0) /\ a + b >= 0

\* a - b underflows
SubOverflows(a, b) == U32Less(a, b)

\* a.wrapping_add(b)
WrapAdd(a, b) ==
    IF a >= 0 /\ b >= 0 /\ a > 2147483647 - b
        THEN (a - 2147483647 - 1) + (b - 2147483647 - 1)
    ELSE IF a < 0 /\ b < 0 /\ a < (-2147483647 - 1) - b
        THEN (a + 2147483647 + 1) + (b + 2147483647 + 1)
    ELSE a + b

\* a.wrapping_sub(b)
WrapSub(a, b) ==
    IF a >= 0 /\ b < 0 /\ a > 2147483647 + b
        THEN (a - 2147483647 - 1) - (b + 2147483647 + 1)
    ELSE IF a < 0 /\ b >= 0 /\ a < (-2147483647 - 1) + b
        THEN (a + 2147483647 + 1) - (b - 2147483647 - 1)
    ELSE a - b

(***************************************************************************)
(* Diff::from_only_hunk                                                    *)
(***************************************************************************)
AT2 == <<"@", "@">>

\* the locals declared before the loop
InitLocals(h) ==
    [ trailing_newline      |-> EndsWith(h, <<NL>>),
      left_lines            |-> <<>>,
      right_lines           |-> <<>>,
      right_start           |-> 0,
      right_stop            |-> 0,
      left_start            |-> 0,
      left_stop             |-> 0,
      associated_line_pairs |-> <<>>,
      context               |-> <<>>,
      context_start         |-> 0,
      previous_line_type    |-> "Context" ]

\* the text between the markers of a header line
HeaderData(line) ==
    TrimEndMatches(
        TrimEndMatches(
            TrimStartMatches(TrimStartMatches(line, "@"), " "),
            " "),
        "@")

\* HeaderRow that trusts the declared left count: the left cursor starts at
\* left_start + left_count
HeaderRow_TrustsLeftCount(l, line) ==
    LET data                == HeaderData(line)
        minus               == Find(data, <<"-">>)
        start_index         == minus + 1
        original_stop_index == Find(data, <<" ">>)
        pieces              == Split(Slice(data, start_index, original_stop_index), ",")
        left                == ParseU32(pieces[1])
        count               == IF Len(pieces) > 1 /\ ParseU32(pieces[2]).ok
                               THEN ParseU32(pieces[2]).value ELSE 0
        plus                == Find(data, <<"+">>)
        data2               == TrimStartMatches(SliceFrom(data, plus + 1), " ")
        right               == ParseU32(SplitFirst(data2, ","))
    IN  IF minus = -1 THEN [err |-> "Parse", l |-> l]
        ELSE IF original_stop_index = -1 THEN [err |-> "Parse", l |-> l]
        ELSE IF start_index > original_stop_index THEN [err |-> "panic", l |-> l]
        ELSE IF ~left.ok THEN [err |-> "Invalid", l |-> l]
        ELSE IF plus = -1 THEN [err |-> "Parse", l |-> l]
        ELSE IF ~right.ok THEN [err |-> "Invalid", l |-> l]
        ELSE [err |-> "none",
              l   |-> [l EXCEPT !.left_start = left.value,
                                !.left_stop = left.value + count,
                                !.right_start = right.value,
                                !.right_stop = right.value,
                                !.context_start = right.value,
                                !.associated_line_pairs =
                                    Append(@, <<left.value, right.value>>)]]

\* One iteration of the loop on a line that starts with "@@".
\* err is "none", or the way the function leaves: "Parse", "Invalid", "panic".
HeaderRow(l, line) ==
    LET data                == HeaderData(line)
        minus               == Find(data, <<"-">>)
        start_index         == minus + 1
        original_stop_index == Find(data, <<" ">>)
        left                == ParseU32(SplitFirst(Slice(data, start_index, original_stop_index), ","))
        plus                == Find(data, <<"+">>)
        data2               == TrimStartMatches(SliceFrom(data, plus + 1), " ")
        right               == ParseU32(SplitFirst(data2, ","))
    IN  IF minus = -1 THEN [err |-> "Parse", l |-> l]
        ELSE IF original_stop_index = -1 THEN [err |-> "Parse", l |-> l]
        ELSE IF start_index > original_stop_index THEN [err |-> "panic", l |-> l]
        ELSE IF ~left.ok THEN [err |-> "Invalid", l |-> l]
        ELSE IF plus = -1 THEN [err |-> "Parse", l |-> l]
        ELSE IF ~right.ok THEN [err |-> "Invalid", l |-> l]
        ELSE [err |-> "none",
              l   |-> [l EXCEPT !.left_start = left.value,
                                !.left_stop = left.value,
                                !.right_start = right.value,
                                !.right_stop = right.value,
                                !.context_start = right.value,
                                !.associated_line_pairs =
                                    Append(@, <<left.value, right.value>>)]]

\* the classification of a line that does not start with "@@"
LineTypeOf(line) ==
    IF StartsWith(line, <<" ">>) THEN "Context"
    ELSE IF StartsWith(line, <<"-">>) THEN "Deletion"
    ELSE IF StartsWith(line, <<"+">>) THEN "Addition"
    ELSE "None"

\* BodyRow with an addition row stored on both sides, as a context row is
BodyRow_AdditionOnBothSides(l, line, checks) ==
    LET line_type  == LineTypeOf(line)
        stored     == SliceFrom(line, 1)
        onLeft     == line_type \in {"Context", "Deletion", "Addition"}
        onRight    == line_type \in {"Context", "Addition"}
        left_stop  == IF onLeft THEN WrapAdd(l.left_stop, 1) ELSE l.left_stop
        right_stop == IF onRight THEN WrapAdd(l.right_stop, 1) ELSE l.right_stop
    IN  IF line_type = "None" THEN [err |-> "Invalid", l |-> l]
        ELSE [err |-> "none",
              l   |-> [l EXCEPT
                        !.left_lines  = IF onLeft THEN Append(@, stored) ELSE @,
                        !.left_stop   = left_stop,
                        !.right_lines = IF onRight THEN Append(@, stored) ELSE @,
                        !.right_stop  = right_stop,
                        !.associated_line_pairs = Append(@, <<left_stop, right_stop>>),
                        !.previous_line_type = line_type]]

\* One iteration of the loop on a line that does not start with "@@";
\* checks is the build's overflow setting.
BodyRow(l, line, checks) ==
    LET line_type  == LineTypeOf(line)
        stored     == SliceFrom(line, 1)
        onLeft     == line_type \in {"Context", "Deletion"}
        onRight    == line_type \in {"Context", "Addition"}
        left_stop  == IF onLeft THEN WrapAdd(l.left_stop, 1) ELSE l.left_stop
        right_stop == IF onRight THEN WrapAdd(l.right_stop, 1) ELSE l.right_stop
        opens      == l.previous_line_type # line_type /\ line_type = "Context"
        closes     == /\ l.previous_line_type # line_type
                      /\ line_type \in {"Addition", "Deletion"}
                      /\ l.previous_line_type = "Context"
        overflow   == \/ onLeft /\ AddOverflows(l.left_stop, 1)
                      \/ onRight /\ AddOverflows(l.right_stop, 1)
                      \/ opens /\ SubOverflows(right_stop, 1)
    IN  IF line_type = "None" THEN [err |-> "Invalid", l |-> l]
        ELSE IF checks /\ overflow THEN [err |-> "panic", l |-> l]
        ELSE [err |-> "none",
              l   |-> [l EXCEPT
                        !.left_lines  = IF onLeft THEN Append(@, stored) ELSE @,
                        !.left_stop   = left_stop,
                        !.right_lines = IF onRight THEN Append(@, stored) ELSE @,
                        !.right_stop  = right_stop,
                        !.associated_line_pairs = Append(@, <<left_stop, right_stop>>),
                        !.context_start = IF opens THEN WrapSub(right_stop, 1) ELSE @,
                        !.context = IF closes
                                    THEN Append(@, <<l.context_start, right_stop>>)
                                    ELSE @,
                        !.previous_line_type = line_type]]

\* one iteration of `for line in hunk.split('\n')`
LoopRow(l, line, checks) ==
    IF StartsWith(line, AT2) THEN HeaderRow(l, line) ELSE BodyRow(l, line, checks)

\* the loop over the remaining lines
RECURSIVE LoopRows(_, _, _)
LoopRows(l, lines, checks) ==
    IF lines = <<>> THEN [err |-> "none", l |-> l]
    ELSE LET r == LoopRow(l, Head(lines), checks)
         IN  IF r.err # "none" THEN r ELSE LoopRows(r.l, Tail(lines), checks)

\* Diff::from_only_hunk as a function: err = "none" is Ok(Diff), whose fields
\* are those of l (original_range = left_start..left_stop,
\* range = right_start..right_stop)
from_only_hunk(h, checks) ==
    IF ~StartsWith(h, AT2) THEN [err |-> "Parse", l |-> InitLocals(h)]
    ELSE LoopRows(InitLocals(h), Split(h, NL), checks)

(***************************************************************************)
(* methods of Diff                                                         *)
(***************************************************************************)
\* each line followed by "\n"
RECURSIVE PushLines(_)
PushLines(lines) ==
    IF lines = <<>> THEN <<>>
    ELSE Head(lines) \o <<NL>> \o PushLines(Tail(lines))

\* Diff::text with the alternative its comment proposes,
\* out.trim_end_matches("\n"), in place of strip_suffix
Diff_text_TrimAll(d) ==
    LET o == PushLines(d.right_lines)
    IN  IF ~d.trailing_newline THEN TrimEndMatches(o, NL) ELSE o

\* Diff::text
Diff_text(d) ==
    LET o == PushLines(d.right_lines)
    IN  IF ~d.trailing_newline THEN StripSuffixNL(o) ELSE o

\* Diff::original_text
Diff_original_text(d) ==
    LET o == PushLines(d.left_lines)
    IN  IF ~d.trailing_newline THEN StripSuffixNL(o) ELSE o

\* the number of values of a Range<u32> start..end, as a u32; a range whose
\* start is not below its end is empty
RangeLen(start, end) ==
    IF U32Less(start, end) THEN WrapSub(end, start) ELSE 0

\* the k-th value (k = 1, 2, ...) of the Range<u32> that begins at start
RangeNth(start, k) == WrapAdd(start, k - 1)

\* Diff::get_context.  kind is "None", "Some" (value: one string per recorded
\* range) or "panic" (an index into right_lines out of bounds, or a checked
\* underflow of i - range.start).  The code never reads ignore_starting.
\* A range of more values than right_lines has lines runs through that many
\* different indices, so one of them is out of bounds.
Diff_get_context(d, ignore_starting, checks) ==
    LET Bad(i) ==
            \/ checks /\ SubOverflows(i, d.right_start)
            \/ WrapSub(i, d.right_start) < 0
            \/ WrapSub(i, d.right_start) >= Len(d.right_lines)
        TooLong(ctx) ==
            \/ RangeLen(ctx[1], ctx[2]) < 0
            \/ RangeLen(ctx[1], ctx[2]) > Len(d.right_lines)
        Render(ctx) ==
            PushLines([k \in 1..RangeLen(ctx[1], ctx[2]) |->
                          d.right_lines[WrapSub(RangeNth(ctx[1], k), d.right_start) + 1]])
        panics ==
            \E n \in 1..Len(d.context) :
                \/ TooLong(d.context[n])
                \/ \E k \in 1..RangeLen(d.context[n][1], d.context[n][2]) :
                      Bad(RangeNth(d.context[n][1], k))
    IN  IF Len(d.context) = 0 THEN [kind |-> "None", value |-> <<>>]
        ELSE IF panics THEN [kind |-> "panic", value |-> <<>>]
        ELSE [kind |-> "Some",
              value |-> [n \in 1..Len(d.context) |-> Render(d.context[n])]]

\* Diff::text_part with the offset computed as the validation suggests,
\* start = comment.start - range.start of the lines, i.e. one line too far
Diff_text_part_OffByOne(d, comment_range, side, checks) ==
    LET lines == IF side = "LL" THEN d.left_lines ELSE d.right_lines
        k     == IF side = "LL" THEN 1 ELSE 2
        text_start == d.associated_line_pairs[1][k]
        text_end   == d.associated_line_pairs[Len(d.associated_line_pairs)][k]
        start == WrapSub(comment_range[1], text_start) + 1
        end   == WrapSub(WrapAdd(start, comment_range[2]), comment_range[1])
        len   == RangeLen(start, end)
        o     == PushLines([n \in 1..len |-> lines[RangeNth(start, n) + 1]])
    IN  IF side \in {"LR", "RL"} THEN [kind |-> "panic"]
        ELSE IF U32Less(comment_range[1], text_start) \/ U32Less(text_end, comment_range[2])
            THEN [kind |-> "Err", err |-> "Invalid"]
        ELSE IF len < 0 \/ len > Len(lines) THEN [kind |-> "panic"]
        ELSE IF \E n \in 1..len : RangeNth(start, n) < 0 \/ RangeNth(start, n) >= Len(lines)
            THEN [kind |-> "panic"]
        ELSE [kind |-> "Ok",
              value |-> IF ~d.trailing_newline THEN StripSuffixNL(o) ELSE o]

\* Diff::text_part(comment, side), side one of "LL", "RR", "LR", "RL".
\* kind is "Ok" with the rendered value, "Err" with the error, or "panic":
\* the panic!() of a cross-side request, a checked overflow of the offset
\* arithmetic, or an index into the lines out of bounds (a range of more
\* values than there are lines always reaches one).
Diff_text_part(d, comment_range, side, checks) ==
    LET lines == IF side = "LL" THEN d.left_lines ELSE d.right_lines
        k     == IF side = "LL" THEN 1 ELSE 2
        text_start == d.associated_line_pairs[1][k]
        text_end   == d.associated_line_pairs[Len(d.associated_line_pairs)][k]
        start == WrapSub(comment_range[1], text_start)
        sum   == WrapAdd(start, comment_range[2])
        end   == WrapSub(sum, comment_range[1])
        overflow == \/ AddOverflows(start, comment_range[2])
                    \/ SubOverflows(sum, comment_range[1])
        len   == RangeLen(start, end)
        o     == PushLines([n \in 1..len |-> lines[RangeNth(start, n) + 1]])
    IN  IF side \in {"LR", "RL"} THEN [kind |-> "panic"]
        ELSE IF U32Less(comment_range[1], text_start) \/ U32Less(text_end, comment_range[2])
            THEN [kind |-> "Err", err |-> "Invalid"]
        ELSE IF checks /\ overflow THEN [kind |-> "panic"]
        ELSE IF len < 0 \/ len > Len(lines) THEN [kind |-> "panic"]
        ELSE IF \E n \in 1..len : RangeNth(start, n) < 0 \/ RangeNth(start, n) >= Len(lines)
            THEN [kind |-> "panic"]
        ELSE [kind |-> "Ok",
              value |-> IF ~d.trailing_newline THEN StripSuffixNL(o) ELSE o]

(***************************************************************************)
(* Inputs                                                                  *)
(***************************************************************************)
\* the most lines that follow the first line of a generated hunk
MaxRows == 3

HeaderMixed    == <<"@", "@", " ", "-", "1", ",", "4", " ", "+", "1", ",", "4", " ", "@", "@">>
HeaderAddOnly  == <<"@", "@", " ", "-", "5", ",", "0", " ", "+", "5", ",", "2", " ", "@", "@">>
HeaderLater    == <<"@", "@", " ", "-", "7", ",", "1", " ", "+", "2", ",", "1", " ", "@", "@">>
HeaderNoCounts == <<"@", "@", " ", "-", "3", " ", "+", "7", " ", "@", "@">>
HeaderNotANum  == <<"@", "@", " ", "-", "1", ",", "4", " ", "+", "x", ",", "4", " ", "@", "@">>
HeaderSwapped  == <<"@", "@", " ", "+", "1", ",", "4", " ", "-", "1", ",", "4", " ", "@", "@">>
HeaderNoPlus   == <<"@", "@", " ", "-", "1", ",", "4", " ", "@", "@">>

RowA      == <<" ", "a">>
RowDelB   == <<"-", "b">>
RowAddB   == <<"+", "B">>
RowC      == <<" ", "c">>
RowD      == <<" ", "d">>
RowAddNil == <<"+">>
RowMarker == <<"\\", " ", "N">>

\* first lines of the generated hunks: headers, malformed headers, no header
FirstLines ==
    { HeaderMixed, HeaderAddOnly, HeaderNoCounts, HeaderNotANum,
      HeaderSwapped, HeaderNoPlus, RowA }

\* lines that may follow the first one
LaterLines ==
    { RowA, RowDelB, RowAddB, RowC, RowAddNil, RowMarker, HeaderLater }

RECURSIVE JoinLines(_)
JoinLines(ls) ==
    IF Len(ls) = 1 THEN ls[1] ELSE Head(ls) \o <<NL>> \o JoinLines(Tail(ls))

Bodies == UNION { [1..n -> LaterLines] : n \in 0..MaxRows }

\* the hunk of the worked example: " a", "-b", "+B", " c", " d"
ExampleMixed == JoinLines(<<HeaderMixed, RowA, RowDelB, RowAddB, RowC, RowD>>)

\* the addition-only example: two addition rows under -5,0 +5,2
ExampleAddOnly == JoinLines(<<HeaderAddOnly, RowAddB, RowAddB>>)

\* a hunk text with a second header line whose right start is lower
ExampleTwoHeaders == JoinLines(<<HeaderAddOnly, RowAddB, HeaderLater, RowC, RowAddB>>)

Hunks ==
    LET plain == { JoinLines(<<f>> \o b) : f \in FirstLines, b \in Bodies }
                 \cup {ExampleMixed, ExampleTwoHeaders}
    IN  plain \cup { h \o <<NL>> : h \in plain }

\* the largest line number of a range handed to text_part
MaxRangeLine == 6

CommentRanges == (0..MaxRangeLine) \X (0..MaxRangeLine)

\* the four CommentSide values diff.rs matches on
Sides == {"LL", "RR", "LR", "RL"}

NoLocals == InitLocals(<<>>)
NoOut == [op |-> "none"]
NotResolved == [kind |-> "none"]
None == [some |-> FALSE]
Some(v) == [some |-> TRUE, value |-> v]
\* the values of the Option<u32> argument of get_context
IgnoreArgs == {None} \cup { Some(n) : n \in 0..MaxRangeLine }

NoComment == [original_line |-> 0, original_start_line |-> None,
              subject_type |-> None, diff_hunk |-> <<>>]

(***************************************************************************)
(* The parser, one loop iteration per step, and the methods of its Diff    *)
(***************************************************************************)
Init ==
    /\ hunk \in Hunks
    /\ overflow_checks \in BOOLEAN
    /\ pc = "start"
    /\ rest = <<>>
    /\ p = NoLocals
    /\ result = "none"
    /\ out = NoOut
    /\ comment = NoComment
    /\ text = <<>>
    /\ resolved = NotResolved
    /\ starter = <<>>
    /\ diagnostics = <<>>

\* diff.rs:75-77: the text does not begin with "@@"
RejectNoHeader ==
    /\ pc = "start"
    /\ ~StartsWith(hunk, AT2)
    /\ pc' = "done"
    /\ result' = "Parse"
    /\ UNCHANGED <<hunk, overflow_checks, rest, p, out, comment, text, resolved,
                 starter, diagnostics>>

\* diff.rs:79-98: declare the locals and split the text
EnterLoop ==
    /\ pc = "start"
    /\ StartsWith(hunk, AT2)
    /\ pc' = "loop"
    /\ p' = InitLocals(hunk)
    /\ rest' = Split(hunk, NL)
    /\ UNCHANGED <<hunk, overflow_checks, result, out, comment, text, resolved,
                 starter, diagnostics>>

\* the end of one loop iteration whose outcome is r: go on with the next
\* line, or leave the function with r.err
Advance(r) ==
    IF r.err = "none"
    THEN /\ p' = r.l
         /\ rest' = Tail(rest)
         /\ UNCHANGED <<pc, result>>
    ELSE /\ pc' = "done"
         /\ result' = r.err
         /\ UNCHANGED <<p, rest>>

\* diff.rs:99-133: the next line starts with "@@"
HeaderLine ==
    /\ pc = "loop"
    /\ rest # <<>>
    /\ StartsWith(Head(rest), AT2)
    /\ Advance(LoopRow(p, Head(rest), overflow_checks))
    /\ UNCHANGED <<hunk, overflow_checks, out, comment, text, resolved,
                 starter, diagnostics>>

\* diff.rs:135-181 on a ' ' line
ContextLine ==
    /\ pc = "loop"
    /\ rest # <<>>
    /\ ~StartsWith(Head(rest), AT2)
    /\ LineTypeOf(Head(rest)) = "Context"
    /\ Advance(LoopRow(p, Head(rest), overflow_checks))
    /\ UNCHANGED <<hunk, overflow_checks, out, comment, text, resolved,
                 starter, diagnostics>>

\* diff.rs:135-181 on a '+' line
AdditionLine ==
    /\ pc = "loop"
    /\ rest # <<>>
    /\ ~StartsWith(Head(rest), AT2)
    /\ LineTypeOf(Head(rest)) = "Addition"
    /\ Advance(LoopRow(p, Head(rest), overflow_checks))
    /\ UNCHANGED <<hunk, overflow_checks, out, comment, text, resolved,
                 starter, diagnostics>>

\* diff.rs:135-181 on a '-' line
DeletionLine ==
    /\ pc = "loop"
    /\ rest # <<>>
    /\ ~StartsWith(Head(rest), AT2)
    /\ LineTypeOf(Head(rest)) = "Deletion"
    /\ Advance(LoopRow(p, Head(rest), overflow_checks))
    /\ UNCHANGED <<hunk, overflow_checks, out, comment, text, resolved,
                 starter, diagnostics>>

\* diff.rs:135-143 on any other line, the empty line included
UnknownLine ==
    /\ pc = "loop"
    /\ rest # <<>>
    /\ ~StartsWith(Head(rest), AT2)
    /\ LineTypeOf(Head(rest)) = "None"
    /\ Advance(LoopRow(p, Head(rest), overflow_checks))
    /\ UNCHANGED <<hunk, overflow_checks, out, comment, text, resolved,
                 starter, diagnostics>>

\* diff.rs:185-194: the loop is over, Ok(Diff)
ReturnOk ==
    /\ pc = "loop"
    /\ rest = <<>>
    /\ pc' = "done"
    /\ result' = "Ok"
    /\ UNCHANGED <<hunk, overflow_checks, rest, p, out, comment, text, resolved,
                 starter, diagnostics>>

\* The methods below take &self and leave the Diff as it is, so the order of
\* calls cannot matter: each behaviour makes one call on the parsed Diff.
CallText ==
    /\ result = "Ok"
    /\ out = NoOut
    /\ out' = [op |-> "text", value |-> Diff_text(p)]
    /\ UNCHANGED <<hunk, overflow_checks, pc, rest, p, result, comment, text, resolved,
                 starter, diagnostics>>

CallOriginalText ==
    /\ result = "Ok"
    /\ out = NoOut
    /\ out' = [op |-> "original_text", value |-> Diff_original_text(p)]
    /\ UNCHANGED <<hunk, overflow_checks, pc, rest, p, result, comment, text, resolved,
                 starter, diagnostics>>

CallGetContext ==
    /\ result = "Ok"
    /\ out = NoOut
    /\ \E ignore_starting \in IgnoreArgs :
          out' = [op |-> "get_context", ignore_starting |-> ignore_starting,
                  value |-> Diff_get_context(p, ignore_starting, overflow_checks)]
    /\ UNCHANGED <<hunk, overflow_checks, pc, rest, p, result, comment, text, resolved,
                 starter, diagnostics>>

\* original_range and range of the Diff built from the locals l, as ranges to
\* ask text_part for
OwnRanges(l) == { <<l.left_start, l.left_stop>>, <<l.right_start, l.right_stop>> }

\* diff.rs:222-272: text_part on the parsed Diff; a panic ends the program
CallTextPart ==
    /\ result = "Ok"
    /\ out = NoOut
    /\ \E r \in CommentRanges \cup OwnRanges(p), side \in Sides :
          out' = [op |-> "text_part", range |-> r, side |-> side,
                  value |-> Diff_text_part(p, r, side, overflow_checks)]
    /\ UNCHANGED <<hunk, overflow_checks, pc, rest, p, result, comment, text, resolved,
                 starter, diagnostics>>

Next ==
    \/ RejectNoHeader
    \/ EnterLoop
    \/ HeaderLine
    \/ ContextLine
    \/ AdditionLine
    \/ DeletionLine
    \/ UnknownLine
    \/ ReturnOk
    \/ CallText
    \/ CallOriginalText
    \/ CallGetContext
    \/ CallTextPart

Spec == Init /\ [][Next]_vars

(***************************************************************************)
(* ReviewComment::line_range                                               *)
(***************************************************************************)
WordLine == <<"l", "i", "n", "e">>
WordFile == <<"f", "i", "l", "e">>

\* ReviewComment::get_subject_type
get_subject_type(c) ==
    IF c.subject_type.some
    THEN IF Find(c.subject_type.value, WordLine) # -1 THEN "Line"
         ELSE IF Find(c.subject_type.value, WordFile) # -1 THEN "File"
         ELSE "Line"
    ELSE "Line"

\* ReviewComment::line_range (the build without the "debug" feature; the
\* other differs by log messages only).  kind is "range" with the positions'
\* lines beg and end, or "panic" with its cause: "overflow", a checked
\* arithmetic overflow, or "unwrap", the unwrap() of a hunk that did not
\* parse or whose parsing itself aborted.
line_range(c, doc, checks) ==
    LET end0      == c.original_line
        start     == IF c.original_start_line.some THEN c.original_start_line.value ELSE end0
        beg0      == WrapSub(start, 1)
        line_diff == WrapSub(end0, beg0)
        parsed    == from_only_hunk(c.diff_hunk, checks)
        commented_on_text == Diff_text(parsed.l)
        index     == Find(doc, commented_on_text)
        beg       == IF Len(commented_on_text) = 0 THEN beg0
                     ELSE IF index # -1 THEN CountMatches(Slice(doc, 0, index), NL)
                     ELSE beg0
        end       == WrapAdd(beg, line_diff)
        Panic(cause) == [kind |-> "panic", cause |-> cause]
    IN  IF checks /\ SubOverflows(start, 1) THEN Panic("overflow")
        ELSE IF get_subject_type(c) = "File" THEN [kind |-> "range", beg |-> beg0, end |-> end0]
        ELSE IF checks /\ SubOverflows(end0, beg0) THEN Panic("overflow")
        ELSE IF parsed.err # "none" THEN Panic("unwrap")
        ELSE IF checks /\ AddOverflows(beg, line_diff) THEN Panic("overflow")
        ELSE [kind |-> "range", beg |-> beg, end |-> end]

(***************************************************************************)
(* The resolver: Backend::on_change, from the arrival of a document text   *)
(* to the publication of its diagnostics.  The steps are those of one      *)
(* on_change call; Backend holds nothing a call writes, so the steps of    *)
(* other calls that the executor runs in between are stuttering steps      *)
(* here.  The build is the one without the "debug" and "message_tracing"   *)
(* features.                                                               *)
(***************************************************************************)
\* the largest line number a generated comment carries
MaxLine == 2
\* the most lines of a generated document
MaxDocLines == 3

DocLineSet == { <<"a">>, <<"B">> }

Documents ==
    LET nonempty == { JoinLines(ls) : ls \in UNION { [1..n -> DocLineSet] : n \in 1..MaxDocLines } }
    IN  {<<>>} \cup nonempty \cup { d \o <<NL>> : d \in nonempty }

\* hunks of the generated comments: parsed ones whose text is "a\nB", "B"
\* and empty (no right line, or one empty right line), and ones that do not
\* parse (Invalid, Parse)
CommentHunks ==
    { JoinLines(<<HeaderMixed, RowA, RowDelB, RowAddB>>),
      JoinLines(<<HeaderMixed, RowAddB>>),
      JoinLines(<<HeaderMixed, RowDelB>>),
      JoinLines(<<HeaderMixed, RowAddNil>>),
      JoinLines(<<HeaderMixed, RowA>>) \o <<NL>>,
      JoinLines(<<HeaderNoPlus, RowA>>) }

SubjectTypes == { None, Some(WordLine), Some(WordFile), Some(<<"x">>) }

Comments ==
    [ original_line       : 0..MaxLine,
      original_start_line : {None} \cup { Some(n) : n \in 0..MaxLine },
      subject_type        : SubjectTypes,
      diff_hunk           : CommentHunks ]

\* the line numbers are 1-based and the start is not after the end, as the
\* review platform sends them
OneBased(c) ==
    /\ c.original_line >= 1
    /\ c.original_start_line.some =>
          (c.original_start_line.value >= 1 /\ c.original_start_line.value <= c.original_line)

\* a second conversation on the same file: a comment on the file as a whole,
\* and a comment on line 1 whose text is "B"
SecondComments ==
    { [original_line |-> 1, original_start_line |-> None,
       subject_type |-> Some(WordFile),
       diff_hunk |-> JoinLines(<<HeaderMixed, RowAddB>>)],
      [original_line |-> 1, original_start_line |-> None,
       subject_type |-> Some(WordLine),
       diff_hunk |-> JoinLines(<<HeaderMixed, RowAddB>>)] }

\* what the filter on conversation.starter leaves: the starter comments
\* whose path the uri contains, replies never; none, one or two of them
StarterLists(cs) ==
    { <<c>> : c \in cs } \cup { <<c, d>> : c \in cs, d \in SecondComments }

InitResolve ==
    /\ overflow_checks \in BOOLEAN
    /\ pc = "idle"
    /\ text = <<>>
    /\ comment = NoComment
    /\ resolved = NotResolved
    /\ starter = <<>>
    /\ diagnostics = <<>>
    /\ hunk = <<>>
    /\ rest = <<>>
    /\ p = NoLocals
    /\ result = "none"
    /\ out = NoOut

\* main.rs:804-807: did_open takes the opened document and waits until its
\* log message "file opened!" is out; on_change is not called yet
DidOpen ==
    /\ pc = "idle"
    /\ \E doc \in Documents : text' = doc
    /\ pc' = "file_opened"
    /\ comment' = NoComment
    /\ resolved' = NotResolved
    /\ starter' = <<>>
    /\ diagnostics' = <<>>
    /\ UNCHANGED <<hunk, overflow_checks, rest, p, result, out>>

\* main.rs:808-814 and 679-680: the log message is out; did_open hands its
\* document to on_change, which asks for the comments and waits for the answer
OpenLogged ==
    /\ pc = "file_opened"
    /\ pc' = "get_comments"
    /\ UNCHANGED <<hunk, overflow_checks, rest, p, result, out, comment, text, resolved,
                   starter, diagnostics>>

\* main.rs:817-832 and 679-680: did_change hands the changed document to
\* on_change, which asks for the comments and waits for the answer
DidChange ==
    /\ pc = "idle"
    /\ \E doc \in Documents : text' = doc
    /\ pc' = "get_comments"
    /\ comment' = NoComment
    /\ resolved' = NotResolved
    /\ starter' = <<>>
    /\ diagnostics' = <<>>
    /\ UNCHANGED <<hunk, overflow_checks, rest, p, result, out>>

\* main.rs:828: a did_change notification that carries no content change:
\* content_changes[0] is out of bounds and the server aborts
DidChangeWithoutContent ==
    /\ pc = "idle"
    /\ pc' = "aborted"
    /\ UNCHANGED <<hunk, overflow_checks, rest, p, result, out, comment, text, resolved,
                   starter, diagnostics>>

\* main.rs:680-685, 690-695, 700-705: get_comments,
\* Conversation::from_review_comments or Repo::new gives Err: on_change
\* sends the error as a log message and waits until it is out
FetchFails ==
    /\ pc = "get_comments"
    /\ pc' = "log_error"
    /\ UNCHANGED <<hunk, overflow_checks, rest, p, result, out, comment, text, resolved,
                   starter, diagnostics>>

\* main.rs:686, 696, 706: the error message is out and on_change returns;
\* nothing is resolved or published
ErrorLogged ==
    /\ pc = "log_error"
    /\ pc' = "idle"
    /\ UNCHANGED <<hunk, overflow_checks, rest, p, result, out, comment, text, resolved,
                   starter, diagnostics>>

\* main.rs:680-709, 758-761: the comments of the review as it is now arrive,
\* the conversations are built and their starters filtered by the uri
FetchOk ==
    /\ pc = "get_comments"
    /\ \/ starter' = <<>>
       \/ starter' \in StarterLists({ c \in Comments : OneBased(c) })
       \/ starter' \in StarterLists({ c \in Comments : ~OneBased(c) })
    /\ pc' = "map"
    /\ UNCHANGED <<hunk, overflow_checks, rest, p, result, out, comment, text, resolved,
                   diagnostics>>

\* main.rs:765-770: the map closure on the next starter comment; an abort of
\* line_range ends the server
ResolveNext ==
    /\ pc = "map"
    /\ starter # <<>>
    /\ comment' = Head(starter)
    /\ resolved' = line_range(Head(starter), text, overflow_checks)
    /\ IF resolved'.kind = "panic"
       THEN /\ pc' = "aborted"
            /\ UNCHANGED <<starter, diagnostics>>
       ELSE /\ starter' = Tail(starter)
            /\ diagnostics' = Append(diagnostics, resolved')
            /\ UNCHANGED pc
    /\ UNCHANGED <<hunk, overflow_checks, rest, p, result, out, text>>

\* main.rs:771-775: collect() is done; publish_diagnostics is called and
\* on_change waits for it
PublishDiagnostics ==
    /\ pc = "map"
    /\ starter = <<>>
    /\ pc' = "publish"
    /\ UNCHANGED <<hunk, overflow_checks, rest, p, result, out, comment, text, resolved,
                   starter, diagnostics>>

\* main.rs:773-776: the diagnostics are out, on_change returns
Published ==
    /\ pc = "publish"
    /\ pc' = "idle"
    /\ UNCHANGED <<hunk, overflow_checks, rest, p, result, out, comment, text, resolved,
                   starter, diagnostics>>

NextResolve ==
    \/ DidOpen
    \/ OpenLogged
    \/ DidChange
    \/ DidChangeWithoutContent
    \/ FetchFails
    \/ ErrorLogged
    \/ FetchOk
    \/ ResolveNext
    \/ PublishDiagnostics
    \/ Published

SpecResolve == InitResolve /\ [][NextResolve]_vars

(***************************************************************************)
(* What a hunk says, read off its text without the parser                  *)
(***************************************************************************)
\* the lines after the first one; a final "\n" terminates the last line
BodyLinesOf(h) == Tail(Split(StripSuffixNL(h), NL))

\* the lines after the first one as split('\n') yields them
RawRowsOf(h) == Tail(Split(h, NL))

IsBodyRow(line) == line # <<>> /\ Head(line) \in {" ", "-", "+"}

\* headers of the documented form "@@ -a,b +c,d @@"
WellFormedHeaders == { HeaderMixed, HeaderAddOnly, HeaderLater }

\* a valid header, then only lines prefixed ' ', '-' or '+'
WellFormed(h) ==
    /\ h # <<>>
    /\ Head(Split(h, NL)) \in WellFormedHeaders
    /\ \A k \in 1..Len(BodyLinesOf(h)) : IsBodyRow(BodyLinesOf(h)[k])

\* the marker-stripped contents of the rows whose marker is in markers
RECURSIVE RowsWith(_, _)
RowsWith(lines, markers) ==
    IF lines = <<>> THEN <<>>
    ELSE IF Head(lines) # <<>> /\ Head(Head(lines)) \in markers
         THEN <<Tail(Head(lines))>> \o RowsWith(Tail(lines), markers)
         ELSE RowsWith(Tail(lines), markers)

\* lines with a separator between them and none after the last
RECURSIVE Joined(_)
Joined(lines) ==
    IF lines = <<>> THEN <<>>
    ELSE IF Len(lines) = 1 THEN lines[1]
    ELSE Head(lines) \o <<NL>> \o Joined(Tail(lines))

\* lines each followed by a separator
RECURSIVE Terminated(_)
Terminated(lines) ==
    IF lines = <<>> THEN <<>> ELSE Head(lines) \o <<NL>> \o Terminated(Tail(lines))

(***************************************************************************)
(* C1                                                                      *)
(***************************************************************************)
\* C1 (as claimed): every well-formed hunk parses; when its raw text does not
\* end in "\n", text() and original_text() are its right and left lines with
\* separators between them only, and when it does, each line of text() and
\* original_text() is followed by one separator.
C1_TrailingNewlineFidelity ==
    (pc = "done" /\ WellFormed(hunk)) =>
        /\ result = "Ok"
        /\ ~EndsWith(hunk, <<NL>>) =>
              /\ Diff_text(p) = Joined(RowsWith(BodyLinesOf(hunk), {" ", "+"}))
              /\ Diff_original_text(p) = Joined(RowsWith(BodyLinesOf(hunk), {" ", "-"}))
        /\ EndsWith(hunk, <<NL>>) =>
              /\ Diff_text(p) = Terminated(RowsWith(BodyLinesOf(hunk), {" ", "+"}))
              /\ Diff_original_text(p) = Terminated(RowsWith(BodyLinesOf(hunk), {" ", "-"}))

(***************************************************************************)
(* C5                                                                      *)
(***************************************************************************)
\* C5 (as claimed): every Diff that from_only_hunk returns has as many left
\* lines as original_range spans and as many right lines as range spans.
C5_LengthInvariant ==
    result = "Ok" =>
        /\ Len(p.left_lines) = p.left_stop - p.left_start
        /\ Len(p.right_lines) = p.right_stop - p.right_start

(***************************************************************************)
(* C6                                                                      *)
(***************************************************************************)
\* exactly one trailing separator removed; the empty string is left empty
DropOneSeparator(s) ==
    IF s = <<>> THEN <<>>
    ELSE IF s[Len(s)] = NL THEN SubSeq(s, 1, Len(s) - 1)
    ELSE s

ExpectedText(h, markers) ==
    LET whole == Terminated(RowsWith(RawRowsOf(h), markers))
    IN  IF EndsWith(h, <<NL>>) THEN whole ELSE DropOneSeparator(whole)

\* C6: for every successfully parsed hunk, text() is the marker-stripped
\* context and addition rows in hunk order and original_text() the
\* marker-stripped context and deletion rows in hunk order, each line followed
\* by one separator, less exactly one trailing separator when the raw text
\* does not end in "\n" (an empty result stays empty).
C6_Reconstruction ==
    /\ (result = "Ok" /\ out = NoOut) =>
          /\ p.trailing_newline = EndsWith(hunk, <<NL>>)
          /\ Diff_text(p) = ExpectedText(hunk, {" ", "+"})
          /\ Diff_original_text(p) = ExpectedText(hunk, {" ", "-"})
    /\ out.op = "text" => out.value = ExpectedText(hunk, {" ", "+"})
    /\ out.op = "original_text" => out.value = ExpectedText(hunk, {" ", "-"})

\* text() has returned for a hunk whose last right line is the empty string:
\* "a", "B", "" render as "a\nB\n"
C6_Witness ==
    /\ hunk = JoinLines(<<HeaderMixed, RowA, RowAddB, RowAddNil>>)
    /\ out = [op |-> "text", value |-> <<"a", NL, "B", NL>>]

(***************************************************************************)
(* C7                                                                      *)
(***************************************************************************)
IsChangeRow(line) == line # <<>> /\ Head(line) \in {"-", "+"}
IsContextRow(line) == line # <<>> /\ Head(line) = " "
IsRightRow(line) == line # <<>> /\ Head(line) \in {" ", "+"}

\* right_start as the first line of the hunk gives it
FirstRightStart(h) == HeaderRow(InitLocals(h), Head(Split(h, NL))).l.right_start

\* the right-side line number of row k of the hunk
RightNo(h, k) ==
    FirstRightStart(h) + Cardinality({ j \in 1..(k - 1) : IsRightRow(RawRowsOf(h)[j]) })

ChangeRows(h) == { k \in 1..Len(RawRowsOf(h)) : IsChangeRow(RawRowsOf(h)[k]) }

\* right-side line numbers of the unmodified rows before the first change row
LeadingRun(h) ==
    { RightNo(h, k) : k \in { k \in 1..Len(RawRowsOf(h)) :
        /\ IsContextRow(RawRowsOf(h)[k])
        /\ \A c \in ChangeRows(h) : k < c } }

\* right-side line numbers of the unmodified rows after the last change row
TrailingRun(h) ==
    { RightNo(h, k) : k \in { k \in 1..Len(RawRowsOf(h)) :
        /\ IsContextRow(RawRowsOf(h)[k])
        /\ \A c \in ChangeRows(h) : k > c } }

\* rows that open a run of unmodified lines lying between two change rows
InnerRunStarts(h) ==
    { k \in 2..Len(RawRowsOf(h)) :
        /\ IsContextRow(RawRowsOf(h)[k])
        /\ ~IsContextRow(RawRowsOf(h)[k - 1])
        /\ \E c \in ChangeRows(h) : c < k
        /\ \E c \in ChangeRows(h) : c > k }

Covers(r, n) == r[1] <= n /\ n < r[2]

\* C7 (as claimed): for every successfully parsed hunk no range of context
\* covers a line of the unmodified run before the first change row or of the
\* one after the last change row, and context holds no range other than for
\* runs between two change rows (none for the start of the hunk).
C7_ContextExcludesOuterRuns ==
    result = "Ok" =>
        /\ \A n \in 1..Len(p.context) :
              \A line \in LeadingRun(hunk) \cup TrailingRun(hunk) :
                  ~Covers(p.context[n], line)
        /\ Len(p.context) <= Cardinality(InnerRunStarts(hunk))

(***************************************************************************)
(* C8                                                                      *)
(***************************************************************************)
\* C8 (as claimed): for every successfully parsed hunk the ranges of context
\* are ascending by start and disjoint: each ends no later than the next
\* starts.
C8_ContextOrdered ==
    result = "Ok" =>
        \A n \in 1..(Len(p.context) - 1) :
            /\ p.context[n][1] <= p.context[n + 1][1]
            /\ p.context[n][2] <= p.context[n + 1][1]

(***************************************************************************)
(* C9                                                                      *)
(***************************************************************************)
\* C9 (as claimed): header "@@ -5,0 +5,2 @@" followed by two addition rows
\* parses to a Diff whose original_text() is empty, whose text() has 2 lines
\* and whose get_context() reports no context.
C9_AdditionOnlyExample ==
    (hunk = ExampleAddOnly /\ pc = "done") =>
        /\ result = "Ok"
        /\ Diff_original_text(p) = <<>>
        /\ Diff_text(p) = <<"B", NL, "B">>
        /\ Diff_get_context(p, None, overflow_checks).kind = "None"

(***************************************************************************)
(* C10                                                                     *)
(***************************************************************************)
\* C10: header "@@ -1,4 +1,4 @@" with rows " a", "-b", "+B", " c", " d"
\* parses to left_lines = [a,b,c,d], right_lines = [a,B,c,d] and
\* context = [3..5].
C10_MixedExampleAsClaimed ==
    (hunk = ExampleMixed /\ pc = "done") =>
        /\ result = "Ok"
        /\ p.left_lines = << <<"a">>, <<"b">>, <<"c">>, <<"d">> >>
        /\ p.right_lines = << <<"a">>, <<"B">>, <<"c">>, <<"d">> >>
        /\ p.context = << <<3, 5>> >>

(***************************************************************************)
(* C2, C3, C4: the resolver                                                *)
(***************************************************************************)
\* (original_start_line or original_line)
StartLine(c) ==
    IF c.original_start_line.some THEN c.original_start_line.value ELSE c.original_line

\* the literal range [(original_start_line or original_line) - 1, original_line)
LiteralRange(c) ==
    [kind |-> "range", beg |-> WrapSub(StartLine(c), 1), end |-> c.original_line]

\* the hunk of the comment parses
HunkParses(c) == from_only_hunk(c.diff_hunk, overflow_checks).err = "none"

\* diff.text() of the comment's hunk
RenderedText(c) == Diff_text(from_only_hunk(c.diff_hunk, overflow_checks).l)

\* t occurs in doc at byte offset i
OccursAt(doc, t, i) ==
    /\ i + Len(t) <= Len(doc)
    /\ \A k \in 1..Len(t) : doc[i + k] = t[k]

Occurs(doc, t) == \E i \in 0..Len(doc) : OccursAt(doc, t, i)

FirstOccurrence(doc, t) ==
    CHOOSE i \in 0..Len(doc) :
        /\ OccursAt(doc, t, i)
        /\ \A j \in 0..(i - 1) : ~OccursAt(doc, t, j)

\* line separators of doc before byte offset i
SeparatorsBefore(doc, i) == Cardinality({ k \in 1..i : doc[k] = NL })

\* C2 (as claimed): for a Line-subject comment whose hunk does not parse,
\* line_range returns the literal range [beg0, end0) and does not abort.
C2_FallbackOnUnparseableHunk ==
    (resolved # NotResolved /\ get_subject_type(comment) = "Line" /\ ~HunkParses(comment)) =>
        resolved = LiteralRange(comment)

\* C3 (as claimed): for a Line-subject comment whose hunk parses and whose
\* rendered text is non-empty and occurs in the document, line_range returns
\* beg = the number of line separators before the first occurrence and
\* end = beg + span, span = original_line - ((original_start_line or
\* original_line) - 1).
C3_Relocation ==
    (/\ resolved # NotResolved
     /\ get_subject_type(comment) = "Line"
     /\ HunkParses(comment)
     /\ RenderedText(comment) # <<>>
     /\ Occurs(text, RenderedText(comment))) =>
        LET beg  == SeparatorsBefore(text, FirstOccurrence(text, RenderedText(comment)))
            span == WrapSub(comment.original_line, WrapSub(StartLine(comment), 1))
        IN  resolved = [kind |-> "range", beg |-> beg, end |-> WrapAdd(beg, span)]

\* C4 (as claimed): for a Line-subject comment whose hunk parses and whose
\* rendered text is empty or does not occur in the document, line_range
\* returns the literal range [(original_start_line or original_line) - 1,
\* original_line).
C4_LiteralFallback ==
    (/\ resolved # NotResolved
     /\ get_subject_type(comment) = "Line"
     /\ HunkParses(comment)
     /\ (RenderedText(comment) = <<>> \/ ~Occurs(text, RenderedText(comment)))) =>
        resolved = LiteralRange(comment)

(***************************************************************************)
(* Claims C11, C16, C17: text_part                                         *)
(***************************************************************************)

\* the text_part call of this state: the mixed example, right side, the
\* range 2..3 that covers only the line B
MixedPartOfB ==
    /\ hunk = ExampleMixed
    /\ result = "Ok"
    /\ out.op = "text_part"
    /\ out.side = "RR"
    /\ out.range = <<2, 3>>

\* C11 (as claimed): on the Diff of the mixed example, text_part on the right
\* side over the range 2..3 returns "B\n", the line followed by a separator.
C11_MixedTextPartAsClaimed ==
    MixedPartOfB => out.value = [kind |-> "Ok", value |-> <<"B", NL>>]

\* C11 (amended): on the Diff of the mixed example, whose hunk text does not
\* end in a newline, text_part on the right side over the range 2..3 returns
\* "B": the one trailing separator is stripped, as text() strips it.
C11_MixedTextPart ==
    MixedPartOfB => out.value = [kind |-> "Ok", value |-> <<"B">>]

C11_Witness ==
    MixedPartOfB /\ out.value.kind = "Ok" /\ ~p.trailing_newline

(***************************************************************************)
(* Claims C12 to C15: the header line and the errors of the parser         *)
(***************************************************************************)
FirstLineOf(h) == Head(Split(h, NL))

\* the header line has no '-' token, no '+' token, or the '+' token first
LacksTokens(line) ==
    LET minus == Find(line, <<"-">>)
        plus  == Find(line, <<"+">>)
    IN  minus = -1 \/ plus = -1 \/ plus < minus

\* C12 (as claimed): from_only_hunk returns Error::Parse, never a Diff and
\* never an abort, for every text that does not begin with "@@" and for
\* every text whose header line lacks the '-' token or the '+' token, the
\* two tokens in the wrong order included.
C12_MalformedHeaderIsParseError ==
    (pc = "done" /\ (~StartsWith(hunk, AT2) \/ LacksTokens(FirstLineOf(hunk)))) =>
        result = "Parse"

\* the text of the number that follows the token mark of a header line, up
\* to the "," of its count or the blank after it
NumberAfter(line, mark) ==
    SplitFirst(SplitFirst(SliceFrom(line, Find(line, <<mark>>) + 1), ","), " ")

\* C13 (as claimed): when the header has the '-' and the '+' token but the
\* text of left_start or right_start is not a valid unsigned integer,
\* from_only_hunk fails with Error::Parse, not with Error::Invalid.
C13_NonNumericBoundIsParseError ==
    (/\ pc = "done"
     /\ StartsWith(hunk, AT2)
     /\ ~LacksTokens(FirstLineOf(hunk))
     /\ \/ ~ParseU32(NumberAfter(FirstLineOf(hunk), "-")).ok
        \/ ~ParseU32(NumberAfter(FirstLineOf(hunk), "+")).ok) =>
        result = "Parse"

\* the header lines of the input set that the documented form
\* "@@ -a[,b] +c[,d] @@" admits
ValidHeaders == WellFormedHeaders \cup {HeaderNoCounts}

\* C14 (as claimed): for every hunk whose first line is a valid header, if a
\* later line has a leading character other than ' ', '-' or '+' (the
\* "\ No newline" marker, or a later line that begins with "@@"),
\* from_only_hunk returns Error::Invalid and no Diff.
C14_UnrecognizedLineIsInvalid ==
    (/\ pc = "done"
     /\ FirstLineOf(hunk) \in ValidHeaders
     /\ \E k \in 1..Len(BodyLinesOf(hunk)) : ~IsBodyRow(BodyLinesOf(hunk)[k])) =>
        result = "Invalid"

\* C15 (as claimed): a hunk whose header omits the counts, "@@ -3 +7 @@",
\* and whose body rows are all well-formed parses successfully, with
\* left_start = 3, right_start = 7 and the cursors started from them.
C15_CountsAreOptional ==
    (/\ pc = "done"
     /\ FirstLineOf(hunk) = HeaderNoCounts
     /\ \A k \in 1..Len(BodyLinesOf(hunk)) : IsBodyRow(BodyLinesOf(hunk)[k])) =>
        /\ result = "Ok"
        /\ p.left_start = 3
        /\ p.right_start = 7
        /\ p.left_stop = 3 + Len(p.left_lines)
        /\ p.right_stop = 7 + Len(p.right_lines)

\* C16 (as claimed): for every Diff and every range, text_part with a
\* cross-side selector returns Err(Error::Invalid); the program does not abort.
C16_CrossSideIsInvalidError ==
    (out.op = "text_part" /\ out.side \in {"LR", "RL"}) =>
        out.value = [kind |-> "Err", err |-> "Invalid"]

\* the lines and the first and last line number of one side of the Diff
SideLines(d, side) == IF side = "LL" THEN d.left_lines ELSE d.right_lines
FirstPair(d, side) == d.associated_line_pairs[1][IF side = "LL" THEN 1 ELSE 2]
LastPair(d, side) ==
    d.associated_line_pairs[Len(d.associated_line_pairs)][IF side = "LL" THEN 1 ELSE 2]

\* the zero-based slice [r.start - first, r.start - first + (r.end - r.start))
\* of the documented conversion, as a set of indices
SliceIndices(d, r, side) ==
    LET lo == r[1] - FirstPair(d, side)
    IN  { i \in 0..(MaxRangeLine + 1) : lo <= i /\ i < lo + (r[2] - r[1]) }

\* the lines lo .. hi - 1 (zero-based) of lines, each followed by a
\* separator, rendered as text() renders
RenderedSlice(d, r, side) ==
    LET lo    == r[1] - FirstPair(d, side)
        hi    == lo + (r[2] - r[1])
        whole == Terminated(IF hi > lo THEN SubSeq(SideLines(d, side), lo + 1, hi)
                                       ELSE <<>>)
    IN  IF d.trailing_newline THEN whole ELSE DropOneSeparator(whole)

\* C17 (as claimed): for every parsed Diff, same-side selector and range r,
\* text_part returns Error::Invalid when r.start < first_pair[side] or
\* r.end > last_pair[side]; otherwise every index of the slice
\* [r.start - first, r.start - first + (r.end - r.start)) is within the
\* side's lines and text_part returns those lines rendered, without an
\* out-of-bounds access or an underflow, also when r.start > r.end.
C17_TextPartSlice ==
    (out.op = "text_part" /\ out.side \in {"LL", "RR"}) =>
        IF \/ out.range[1] < FirstPair(p, out.side)
           \/ out.range[2] > LastPair(p, out.side)
        THEN out.value = [kind |-> "Err", err |-> "Invalid"]
        ELSE /\ \A i \in SliceIndices(p, out.range, out.side) :
                    i < Len(SideLines(p, out.side))
             /\ out.value = [kind |-> "Ok",
                             value |-> RenderedSlice(p, out.range, out.side)]

(***************************************************************************)
(* Claim C20: the ranges appended to context                               *)
(***************************************************************************)
\* the lines of the hunk the loop has been through
ConsumedLines == SubSeq(Split(hunk, NL), 1, Len(Split(hunk, NL)) - Len(rest))

\* the number of context rows at the end of lines
RECURSIVE ContextRowsAtEnd(_)
ContextRowsAtEnd(lines) ==
    IF lines = <<>> \/ ~IsContextRow(lines[Len(lines)]) THEN 0
    ELSE 1 + ContextRowsAtEnd(SubSeq(lines, 1, Len(lines) - 1))

\* C20 (as claimed): every range appended to context when a change row
\* follows a context row is [run_start, right cursor before the change row),
\* run_start the right-side line number of the first context row of the run:
\* the range holds no line number of an addition row, whether a '-' row or a
\* '+' row closes the run.
C20_ContextRunIsUnmodified ==
    [][ (/\ pc = "loop"
         /\ rest # <<>>
         /\ IsChangeRow(Head(rest))
         /\ ContextRowsAtEnd(ConsumedLines) > 0
         /\ Len(p'.context) = Len(p.context) + 1) =>
            p'.context[Len(p'.context)] =
                <<p.right_stop - ContextRowsAtEnd(ConsumedLines), p.right_stop>> ]_vars

(***************************************************************************)
(* Claims C18, C19: File-subject comments and the numeric fields           *)
(***************************************************************************)
\* C18 (as claimed): for every comment whose subject type is File,
\* line_range returns [(original_start_line or original_line) - 1,
\* original_line), whatever the document text and whatever diff_hunk holds.
C18_FileSubjectIsLiteral ==
    (resolved # NotResolved /\ get_subject_type(comment) = "File") =>
        resolved = LiteralRange(comment)

\* C19 (as claimed): for every comment, with any values of original_line and
\* original_start_line (0 and original_start_line > original_line + 1
\* included), line_range computes start - 1, end0 - beg0 and beg + span
\* without unsigned underflow or overflow: it never aborts on its arithmetic.
C19_NumericFieldsTotal ==
    resolved.kind = "panic" => resolved.cause # "overflow"

(***************************************************************************)
(* Claim C21: where a body row goes                                        *)
(***************************************************************************)
\* C21: a step of the loop over a context row appends the row without its
\* marker to left_lines and to right_lines and advances both cursors by 1; a
\* deletion row appends to left_lines and advances left_stop only; an
\* addition row appends to right_lines and advances right_stop only; no body
\* row changes left_start or right_start.
C21_RowRouting ==
    [][ (pc = "loop" /\ rest # <<>> /\ IsBodyRow(Head(rest)) /\ rest' = Tail(rest)) =>
            LET marker  == Head(Head(rest))
                stored  == Tail(Head(rest))
                onLeft  == marker \in {" ", "-"}
                onRight == marker \in {" ", "+"}
            IN  /\ p'.left_lines = IF onLeft THEN Append(p.left_lines, stored)
                                             ELSE p.left_lines
                /\ p'.left_stop = p.left_stop + (IF onLeft THEN 1 ELSE 0)
                /\ p'.right_lines = IF onRight THEN Append(p.right_lines, stored)
                                               ELSE p.right_lines
                /\ p'.right_stop = p.right_stop + (IF onRight THEN 1 ELSE 0)
                /\ p'.left_start = p.left_start
                /\ p'.right_start = p.right_start ]_vars

\* a context, a deletion and an addition row have been routed
C21_Witness ==
    /\ result = "Ok"
    /\ Len(p.left_lines) = 2
    /\ Len(p.right_lines) = 2
    /\ p.left_lines[1] = p.right_lines[1]
    /\ p.left_lines[2] # p.right_lines[2]

(***************************************************************************)
(* Claim C22: associated_line_pairs                                        *)
(***************************************************************************)
\* C22 (as claimed): for every successfully parsed hunk,
\* associated_line_pairs holds one pair per row, the header included; its
\* first pair is (left_start, right_start), its last pair is
\* (original_range.end, range.end); along the sequence neither component
\* decreases and each step raises a component by at most 1.
C22_LinePairs ==
    result = "Ok" =>
        LET pairs == p.associated_line_pairs
            n     == Len(pairs)
        IN  /\ n = Len(Split(hunk, NL))
            /\ pairs[1] = <<p.left_start, p.right_start>>
            /\ pairs[n] = <<p.left_stop, p.right_stop>>
            /\ \A i \in 1..(n - 1) : \A k \in 1..2 :
                    pairs[i + 1][k] - pairs[i][k] \in {0, 1}

(***************************************************************************)
(* Claim C23: the declared counts                                          *)
(***************************************************************************)
\* count texts to write into a header
CountTexts == { <<"0">>, <<"4">>, <<"1", "2">> }

\* the header "@@ -a,b +c,d @@" with the starts of line and the counts b, d
WithCounts(line, b, d) ==
    <<"@", "@", " ", "-">> \o NumberAfter(line, "-") \o <<",">> \o b
        \o <<" ", "+">> \o NumberAfter(line, "+") \o <<",">> \o d
        \o <<" ", "@", "@">>

\* the hunk h with the counts of its first line replaced by b and d
HunkWithCounts(h, b, d) ==
    WithCounts(FirstLineOf(h), b, d) \o SliceFrom(h, Len(FirstLineOf(h)))

\* what a Diff built from the locals l holds, trailing_newline aside
DiffFields(l) ==
    [ original_range        |-> <<l.left_start, l.left_stop>>,
      range                 |-> <<l.right_start, l.right_stop>>,
      left_lines            |-> l.left_lines,
      right_lines           |-> l.right_lines,
      context               |-> l.context,
      associated_line_pairs |-> l.associated_line_pairs ]

\* C23: a hunk with a header "@@ -a,b +c,d @@" and the hunk that differs from
\* it only in the counts written in that header have the same outcome, and
\* when they parse their Diffs have the same original_range, range,
\* left_lines, right_lines, context and associated_line_pairs.
C23_CountsDoNotMatter ==
    (pc = "done" /\ out = NoOut /\ FirstLineOf(hunk) \in WellFormedHeaders) =>
        \A b \in CountTexts, d \in CountTexts :
            LET other == from_only_hunk(HunkWithCounts(hunk, b, d), overflow_checks)
            IN  /\ (other.err = "none") = (result = "Ok")
                /\ result = "Ok" => DiffFields(other.l) = DiffFields(p)

\* a parsed hunk with body rows whose header counts differ from a variant's
C23_Witness ==
    /\ result = "Ok"
    /\ hunk = ExampleMixed
    /\ HunkWithCounts(hunk, <<"1", "2">>, <<"0">>) # hunk
    /\ HunkWithCounts(hunk, <<"4">>, <<"4">>) = hunk

(***************************************************************************)
(* Claim C24: get_context                                                  *)
(***************************************************************************)
\* the right_lines entries at the indices i - range.start, i in ctx, each
\* followed by a separator
RenderedRun(d, ctx) ==
    Terminated(IF ctx[2] > ctx[1]
               THEN SubSeq(d.right_lines, ctx[1] - d.right_start + 1,
                           ctx[2] - d.right_start)
               ELSE <<>>)

\* C24 (as claimed): for every successfully parsed Diff, get_context returns
\* None exactly when context is empty; otherwise every index i - range.start,
\* i in a recorded range, lies within right_lines, the result is one string
\* per recorded range in order, the right_lines entries at those indices each
\* followed by a separator, and it is the same for every value of the
\* ignore-leading-lines argument.
C24_GetContextRendering ==
    (result = "Ok" /\ out.op = "get_context") =>
        /\ (out.value.kind = "None") = (p.context = <<>>)
        /\ p.context # <<>> =>
            /\ \A n \in 1..Len(p.context) :
                  \A i \in p.context[n][1]..(p.context[n][2] - 1) :
                      /\ i - p.right_start >= 0
                      /\ i - p.right_start < Len(p.right_lines)
            /\ out.value = [kind  |-> "Some",
                            value |-> [n \in 1..Len(p.context) |->
                                          RenderedRun(p, p.context[n])]]
        /\ \A ignore_starting \in IgnoreArgs :
              Diff_get_context(p, ignore_starting, overflow_checks) = out.value

(***************************************************************************)
(* Claim C25: text_part over a whole side                                  *)
(***************************************************************************)
\* C25 (as claimed): for every successfully parsed Diff,
\* text_part(range.start..range.end, right side) returns Ok with the string
\* text() returns, and text_part(original_range.start..original_range.end,
\* left side) returns Ok with the string original_text() returns.
C25_WholeSideIsText ==
    (result = "Ok" /\ out.op = "text_part") =>
        /\ (out.side = "RR" /\ out.range = <<p.right_start, p.right_stop>>) =>
              out.value = [kind |-> "Ok", value |-> Diff_text(p)]
        /\ (out.side = "LL" /\ out.range = <<p.left_start, p.left_stop>>) =>
              out.value = [kind |-> "Ok", value |-> Diff_original_text(p)]

====
